---------------------------- MODULE Spec2Model ----------------------------
(***************************************************************************)
(* State-machine model of lambda_function.py: the Lambda@Edge handler that *)
(* parses resize parameters from the query string, derives the storage key *)
(* of the converted image, looks it up in S3, and on a miss fetches the    *)
(* original, resizes / crops / re-encodes it and answers inline or through *)
(* a stored object and a redirect.                                         *)
(*                                                                         *)
(* Python str values are sequences of one-character strings, so that       *)
(* split, join, int(), f-string formatting and urllib.parse.unquote are    *)
(* computed character by character.  Each S3 call is one atomic step; two  *)
(* invocations of the handler interleave at those steps.                   *)
(***************************************************************************)
EXTENDS Integers, Sequences, FiniteSets, TLC

(***************************************************************************)
(* Bounds of the model.                                                    *)
(***************************************************************************)
\* originals of every size 1..MaxDim x 1..MaxDim are transformed
MaxDim == 5
\* requested widths and heights range over 0..MaxTarget
MaxTarget == 6

(***************************************************************************)
(* Program constants.                                                      *)
(***************************************************************************)
DefaultQuality == 75
MaxQuality == 95
MinQuality == 1
SizeLimit == 1000000
PresetS == 200
PresetM == 400
PresetL == 600

Procs == {1, 2}

Other(p) == 3 - p

(***************************************************************************)
(* Strings.                                                                *)
(***************************************************************************)
Digits == <<"0", "1", "2", "3", "4", "5", "6", "7", "8", "9">>

IsDigit(c) == \E i \in 1..10 : Digits[i] = c

DigitVal(c) == (CHOOSE i \in 1..10 : Digits[i] = c) - 1

RECURSIVE NatToStr(_)
NatToStr(n) ==
  IF n < 10 THEN <<Digits[n + 1]>>
  ELSE NatToStr(n \div 10) \o <<Digits[(n % 10) + 1]>>

\* f"{n}" for an int n
IntToStr(n) == IF n < 0 THEN <<"-">> \o NatToStr(0 - n) ELSE NatToStr(n)

RECURSIVE DigitsVal(_)
DigitsVal(s) ==
  IF s = <<>> THEN 0
  ELSE 10 * DigitsVal(SubSeq(s, 1, Len(s) - 1)) + DigitVal(s[Len(s)])

AllDigits(s) == s # <<>> /\ \A i \in 1..Len(s) : IsDigit(s[i])

\* int(v): an optional sign and decimal digits; any other string of the model's
\* characters raises ValueError
ParseInt(v) ==
  IF AllDigits(v) THEN [ok |-> TRUE, val |-> DigitsVal(v)]
  ELSE IF v # <<>> /\ v[1] \in {"-", "+"} /\ AllDigits(Tail(v))
    THEN [ok |-> TRUE,
          val |-> IF v[1] = "-" THEN 0 - DigitsVal(Tail(v)) ELSE DigitsVal(Tail(v))]
  ELSE [ok |-> FALSE, val |-> 0]

\* str.split(sep) with a one-character separator
RECURSIVE Split(_, _)
Split(s, sep) ==
  IF \E i \in 1..Len(s) : s[i] = sep
  THEN LET i == CHOOSE j \in 1..Len(s) :
                  s[j] = sep /\ \A k \in 1..(j - 1) : s[k] # sep
       IN  <<SubSeq(s, 1, i - 1)>> \o Split(SubSeq(s, i + 1, Len(s)), sep)
  ELSE <<s>>

\* sep.join(parts)
RECURSIVE Join(_, _)
Join(parts, sep) ==
  IF Len(parts) = 0 THEN <<>>
  ELSE IF Len(parts) = 1 THEN parts[1]
  ELSE parts[1] \o <<sep>> \o Join(Tail(parts), sep)

HexDigits == <<"0", "1", "2", "3", "4", "5", "6", "7", "8", "9",
               "A", "B", "C", "D", "E", "F">>

LowerHex == <<"a", "b", "c", "d", "e", "f">>

IsHex(c) == (\E i \in 1..16 : HexDigits[i] = c) \/ (\E i \in 1..6 : LowerHex[i] = c)

HexVal(c) ==
  IF \E i \in 1..16 : HexDigits[i] = c
  THEN (CHOOSE i \in 1..16 : HexDigits[i] = c) - 1
  ELSE (CHOOSE i \in 1..6 : LowerHex[i] = c) + 9

\* chr(n) for the character codes the model's uris escape
Chr(n) ==
  CASE n = 37 -> "%"
    [] n = 47 -> "/"
    [] n = 95 -> "_"
    [] n = 112 -> "p"
    [] OTHER -> "?"

\* urllib.parse.unquote: %XX becomes the character, a malformed escape is kept
RECURSIVE Unquote(_)
Unquote(s) ==
  IF s = <<>> THEN <<>>
  ELSE IF s[1] = "%" /\ Len(s) >= 3 /\ IsHex(s[2]) /\ IsHex(s[3])
    THEN <<Chr(16 * HexVal(s[2]) + HexVal(s[3]))>> \o Unquote(SubSeq(s, 4, Len(s)))
  ELSE <<s[1]>> \o Unquote(Tail(s))

\* bytes.decode("utf-8") for sequences of one- and two-byte characters;
\* any other byte is an invalid start byte (UnicodeDecodeError)
RECURSIVE Utf8Decode(_)
Utf8Decode(b) ==
  IF b = <<>> THEN [ok |-> TRUE, text |-> <<>>]
  ELSE IF b[1] < 128
    THEN LET r == Utf8Decode(Tail(b))
         IN  [ok |-> r.ok, text |-> <<b[1]>> \o r.text]
  ELSE IF b[1] >= 194 /\ b[1] <= 223 /\ Len(b) >= 2 /\ b[2] >= 128 /\ b[2] <= 191
    THEN LET r == Utf8Decode(SubSeq(b, 3, Len(b)))
         IN  [ok |-> r.ok, text |-> <<(b[1] - 192) * 64 + (b[2] - 128)>> \o r.text]
  ELSE [ok |-> FALSE, text |-> <<>>]


(***************************************************************************)
(* Transform parameter parsing (lines 31-61).                              *)
(***************************************************************************)
\* the values before the query string is read; has_size is "target_size is not None"
InitialTargets ==
  [ok |-> TRUE, target_width |-> 0, target_height |-> 0,
   target_quality |-> DefaultQuality, has_size |-> FALSE, target_size |-> <<>>]

ClampQuality(q) ==
  IF q > MaxQuality THEN MaxQuality
  ELSE IF q < MinQuality THEN MinQuality
  ELSE q

\* [tuple(q_str.split("=")) for q_str in querystring.split("&")]
Queries(querystring) ==
  LET parts == Split(querystring, "&")
  IN  [i \in 1..Len(parts) |-> Split(parts[i], "=")]

\* one iteration of "for k, v in queries"; ok = FALSE is the ValueError raised by
\* unpacking a tuple that is not a pair or by int(v)
ApplyPair(t, kv) ==
  IF Len(kv) # 2 THEN [t EXCEPT !.ok = FALSE]
  ELSE LET k == kv[1]
           v == kv[2]
           n == ParseInt(v)
       IN  IF k = <<"w">>
             THEN IF n.ok THEN [t EXCEPT !.target_width = n.val]
                  ELSE [t EXCEPT !.ok = FALSE]
           ELSE IF k = <<"h">>
             THEN IF n.ok THEN [t EXCEPT !.target_height = n.val]
                  ELSE [t EXCEPT !.ok = FALSE]
           ELSE IF k = <<"q">>
             THEN IF n.ok THEN [t EXCEPT !.target_quality = ClampQuality(n.val)]
                  ELSE [t EXCEPT !.ok = FALSE]
           ELSE IF k = <<"s">>
             THEN [t EXCEPT !.has_size = TRUE, !.target_size = v]
           ELSE t

RECURSIVE ParseLoop(_, _)
ParseLoop(queries, t) ==
  IF queries = <<>> \/ ~t.ok THEN t
  ELSE ParseLoop(Tail(queries), ApplyPair(t, Head(queries)))

\* lines 55-61
ApplyPreset(t) ==
  IF t.target_width = 0 /\ t.target_height = 0 /\ t.has_size
  THEN IF t.target_size = <<"s">> THEN [t EXCEPT !.target_width = PresetS]
       ELSE IF t.target_size = <<"m">> THEN [t EXCEPT !.target_width = PresetM]
       ELSE IF t.target_size = <<"l">> THEN [t EXCEPT !.target_width = PresetL]
       ELSE t
  ELSE t

ParseTargets(querystring) ==
  LET t == IF querystring # <<>> THEN ParseLoop(Queries(querystring), InitialTargets)
           ELSE InitialTargets
  IN  IF t.ok THEN ApplyPreset(t) ELSE t

(***************************************************************************)
(* Derived key (lines 70-84).                                              *)
(***************************************************************************)
\* Qs with the width put before the height
QsWidthFirst(w, h, q) ==
  LET qs0 == <<"q">> \o IntToStr(q) \o <<"_">>
      qs1 == IF h # 0 THEN <<"h">> \o IntToStr(h) \o qs0 ELSE qs0
  IN  IF w # 0 THEN <<"w">> \o IntToStr(w) \o qs1 ELSE qs1

\* the tag "qs" put before the file name
Qs(w, h, q) ==
  LET qs0 == <<"q">> \o IntToStr(q) \o <<"_">>
      qs1 == IF w # 0 THEN <<"w">> \o IntToStr(w) \o qs0 ELSE qs0
  IN  IF h # 0 THEN <<"h">> \o IntToStr(h) \o qs1 ELSE qs1

\* request["uri"][1:]
S3ObjectKey(uri) == SubSeq(uri, 2, Len(uri))

ConvertedObjectKey(uri, w, h, q) ==
  LET s3_object_key_split == Split(S3ObjectKey(uri), "/")
      n == Len(s3_object_key_split)
      renamed == [s3_object_key_split EXCEPT ![n] = Qs(w, h, q) \o @]
  IN  Join(renamed, "/")

(***************************************************************************)
(* Resize and crop arithmetic (lines 127-167).                             *)
(*                                                                         *)
(* A ratio is a fraction <<n, d>> with d > 0 standing for the double n/d.  *)
(* Distinct fractions of the model's sizes are distinct doubles, so they   *)
(* compare as the fractions do.                                            *)
(***************************************************************************)
RatioGT(a, b) == a[1] * b[2] > b[1] * a[2]

\* max(w_decrease_ratio, h_decrease_ratio), capped at 1.0
TransformRatio(tw, th, width, height) ==
  LET w_decrease_ratio == <<tw, width>>
      h_decrease_ratio == <<th, height>>
      m == IF RatioGT(h_decrease_ratio, w_decrease_ratio)
           THEN h_decrease_ratio ELSE w_decrease_ratio
  IN  IF RatioGT(m, <<1, 1>>) THEN <<1, 1>> ELSE m

\* <<n, d, x>> for which the double product x * (n / d) falls just below the
\* integer x*n/d, so that int() truncates to one less: every such triple with
\* d, x in 1..12 or 22, 600, 800, 1000 and n <= d in 1..12 or 15, 200, 400, 600,
\* 2000 (for every other triple of these the truncated double product is the
\* floor of the exact one)
FloatUnder == {<<15, 22, 22>>}

\* int(x * ratio): the double product truncated toward zero
ScaleInt(x, r) ==
  IF r[1] < 0 THEN 0 - ((x * (0 - r[1])) \div r[2])
  ELSE IF <<r[1], r[2], x>> \in FloatUnder THEN ((x * r[1]) \div r[2]) - 1
  ELSE (x * r[1]) \div r[2]

\* the size passed to original_image.resize
ResizedSize(size, r) == <<ScaleInt(size[1], r), ScaleInt(size[2], r)>>

\* lines 140-144: an unconstrained axis takes the resized dimension
FinalTarget(target, resized) == IF target = 0 THEN resized ELSE target

\* round(n / 2): Python rounds halves to the even neighbour
RoundHalf(n) ==
  IF n % 2 = 0 THEN n \div 2
  ELSE LET f == (n - 1) \div 2
       IN  IF f % 2 = 0 THEN f ELSE f + 1

\* start = int(round(mid - diff)), clamped at 0
CropStart(conv, target) ==
  LET start == RoundHalf(conv - target)
  IN  IF start < 0 THEN 0 ELSE start

\* CropEnd without the clamp at size - 1
CropEndUnclamped(conv, target) == RoundHalf(conv + target)

\* end = int(round(mid + diff)), clamped at size - 1
CropEnd(conv, target) ==
  LET end == RoundHalf(conv + target)
  IN  IF end >= conv THEN conv - 1 ELSE end

\* (start_x, start_y, end_x, end_y)
CropBox(conv_size, tw, th) ==
  <<CropStart(conv_size[1], tw), CropStart(conv_size[2], th),
    CropEnd(conv_size[1], tw), CropEnd(conv_size[2], th)>>

\* Image.crop((left, upper, right, lower)) yields right-left by lower-upper pixels
CroppedSize(box) == <<box[3] - box[1], box[4] - box[2]>>

\* TooLarge with the limit itself counted as too large
TooLargeInclusive(result_size) == result_size >= SizeLimit

\* result_size > 1000 * 1000
TooLarge(result_size) == result_size > SizeLimit

(***************************************************************************)
(* State.                                                                  *)
(***************************************************************************)
VARIABLES
  event_ok,              \* "Records" is in the event and not empty
  request,               \* event["Records"][0]["cf"]["request"], the same for both invocations
  store,                 \* the bucket: URL-decoded key -> [ContentType, Body]
  store0,                \* the bucket before the first invocation (history)
  encoded_size,          \* bytes_io.tell(): the length the encoder yields for this
                         \* original and transform, the same in every invocation
  pc,                    \* each invocation's position in lambda_handler
  after,                 \* the invocation began when the other one had ended (history)
  target_width, target_height, target_quality,
  s3_object_key, converted_object_key,
  head_out,              \* how head_object ended (history)
  cached,                \* the converted key was in the bucket when head_object ran (history)
  s3_response,           \* the object get_object returned
  converted_size,        \* converted_image.size
  crop_box,              \* (start_x, start_y, end_x, end_y)
  result_data,           \* the encoded bytes
  response,              \* the dict the handler returned
  failure,               \* the exception that ended the invocation
  did,                   \* get / transform / put performed by the invocation (history)
  puts                   \* every put_object request that succeeded (history)

vars == <<event_ok, request, store, store0, encoded_size, pc, after, target_width,
          target_height, target_quality, s3_object_key, converted_object_key,
          head_out, cached, s3_response, converted_size, crop_box, result_data,
          response, failure, did, puts>>

ImageTypes == {"image/jpeg", "image/png"}

NoBody == [kind |-> "none"]

NoObject == [ContentType |-> "", Body |-> NoBody]

NoResponse == [status |-> 0, headers |-> <<>>, body |-> NoBody, bodyEncoding |-> "none"]

\* an object whose body is an image file Image.open can read
ImageObject(ctype, format, width, height) ==
  [ContentType |-> ctype,
   Body |-> [kind |-> "image", format |-> format, size |-> <<width, height>>]]

\* an object holding arbitrary bytes
BytesObject(ctype, bytes) ==
  [ContentType |-> ctype, Body |-> [kind |-> "bytes", bytes |-> bytes]]

\* lines 16-26
BadRequestResponse ==
  [status |-> 400,
   headers |-> ("content-type" :> [key |-> "Content-Type", value |-> "text/plain"]),
   body |-> [kind |-> "plain", text |-> "Invalid event structure: 'Records' key is missing"],
   bodyEncoding |-> "none"]

\* lines 64-68
NoTransformResponse(req) ==
  [status |-> 200, headers |-> req.headers, body |-> NoBody, bodyEncoding |-> "none"]

\* lines 97-105 and 196-204
RedirectResponse(key) ==
  [status |-> 301,
   headers |-> ("location" :> [key |-> "Location", value |-> <<"/">> \o key]),
   body |-> NoBody, bodyEncoding |-> "none"]

\* lines 115-121
PassThroughResponse(req, text) ==
  [status |-> 200, headers |-> req.headers,
   body |-> [kind |-> "text", text |-> text], bodyEncoding |-> "text"]

\* lines 207-217: the body is base64.standard_b64encode(result_data)
InlineResponse(ctype, data) ==
  [status |-> 200,
   headers |-> ("content-type" :> [key |-> "Content-Type", value |-> ctype]),
   body |-> [kind |-> "base64", data |-> data], bodyEncoding |-> "base64"]

\* HeadKey without parse.unquote
HeadKeyRaw(key) == key

\* the Key of the head_object call (line 90)
HeadKey(key) == Unquote(key)

\* the Key of the get_object call (line 108)
GetKey(key) == Unquote(key)

\* PutRequest without parse.unquote
PutRequestRawKey(key, ctype, data) ==
  [Key |-> key, ContentType |-> ctype, Body |-> data]

\* the put_object call (lines 187-192)
PutRequest(key, ctype, data) ==
  [Key |-> Unquote(key), ContentType |-> ctype, Body |-> data]

\* cropped_image.save(bytes_io, format=original_image.format, optimize=True,
\* quality=target_quality): the bytes are a function of the cropped pixels, the
\* format and, for JPEG only, the quality
Encode(image, conv, box, quality, size) ==
  [kind |-> "encoded", format |-> image.format, source |-> image.size,
   resized |-> conv, box |-> box,
   quality |-> IF image.format = "JPEG" THEN quality ELSE 0,
   size |-> size]

Exists(key) == key \in DOMAIN store

Terminal == {"done", "failed", "off"}

(***************************************************************************)
(* Inputs.                                                                 *)
(***************************************************************************)
KV(k, v) == <<k, "=">> \o v

\* the pairs that are present, joined by "&"
QueryOf(parts) == Join(SelectSeq(parts, LAMBDA x : x # <<>>), "&")

HostOnly == ("host" :> [key |-> "Host", value |-> "img.springjh.kr"])

HostAndType ==
  ("host" :> [key |-> "Host", value |-> "img.springjh.kr"]) @@
  ("content-type" :> [key |-> "Content-Type", value |-> "text/plain"])

\* photo.jpg of the end-to-end scenario
Photo == ImageObject("image/jpeg", "JPEG", 800, 600)

Input(ok, uri, qs, hdrs, original, size, n) ==
  [event_ok |-> ok, uri |-> uri, querystring |-> qs, headers |-> hdrs,
   original |-> original, encoded_size |-> size, procs |-> n]

\* two concurrent invocations of one request
ConcurrentInputs ==
  { Input(TRUE, uri, <<"w", "=", "4", "0", "0", "&", "q", "=", "6", "0">>, hdrs,
          original, size, 2) :
      uri \in { <<"/", "p">>, <<"/", "d", "/", "%", "7", "0">> },
      hdrs \in { HostOnly, HostAndType },
      original \in { NoObject, Photo,
                     ImageObject("image/png", "PNG", 1000, 1000),
                     BytesObject("image/png", <<0, 1>>),
                     BytesObject("text/plain", <<104, 105>>),
                     BytesObject("text/plain", <<195, 169>>),
                     BytesObject("image/gif", <<71, 73, 70, 255>>) },
      size \in { SizeLimit - 1, SizeLimit, SizeLimit + 1, 2 * SizeLimit } }

WidthValues ==
  { <<"0">>, <<"4">>, <<"-", "1">>, <<"+", "5">>, <<"4", "0", "0">>, <<"x">> }

HeightValues == { <<"0">>, <<"3">>, <<"-", "2">>, <<"1", "2">> }

QualityValues ==
  { <<"0">>, <<"1">>, <<"5", "0">>, <<"6", "0">>, <<"9", "5">>, <<"9", "6">>,
    <<"1", "5", "0">>, <<"-", "5">>, <<>> }

SizeTokens == { <<"s">>, <<"m">>, <<"l">>, <<"x">>, <<>> }

ParserQueries ==
  { QueryOf(<<w, h, q, s>>) :
      w \in {<<>>} \cup { KV("w", v) : v \in WidthValues },
      h \in {<<>>} \cup { KV("h", v) : v \in HeightValues },
      q \in {<<>>} \cup { KV("q", v) : v \in QualityValues },
      s \in {<<>>} \cup { KV("s", v) : v \in SizeTokens } }
  \cup
  { <<"w">>, <<"w", "=", "1", "=", "2">>, <<"w", "=", "4", "&">>,
    <<"q", "=", "5", "&", "q", "=", "2", "0", "0">>,
    <<"q", "=", "6", "0", "&", "w", "=", "4">>,
    <<"w", "w", "=", "5">>,
    <<"s", "=", "m", "&", "w", "=", "0", "&", "h", "=", "5">> }

ParserUris ==
  { <<"/", "p">>, <<"/", "d", "/", "p">>, <<"/", "d", "/", "e", "/", "p">>,
    <<"/", "d", "/">>, <<"/", "%", "2", "F", "p">> }

\* one invocation, the query string and the uri varied
ParserInputs ==
  { Input(TRUE, uri, qs, HostOnly, Photo, SizeLimit, 1) :
      uri \in ParserUris, qs \in ParserQueries }
  \cup { Input(FALSE, <<"/", "p">>, <<>>, HostOnly, Photo, SizeLimit, 1) }

OriginalSizes ==
  ((1..MaxDim) \X (1..MaxDim)) \cup { <<800, 600>>, <<1000, 1000>>, <<22, 22>> }

Targets == (0..MaxTarget) \cup { 15, 400, 2000 }

\* one invocation, the original's size and the targets varied
TransformInputs ==
  { Input(TRUE, <<"/", "p">>,
          QueryOf(<<KV("w", IntToStr(tw)), KV("h", IntToStr(th))>>),
          HostOnly, ImageObject("image/jpeg", "JPEG", size[1], size[2]), SizeLimit, 1) :
      size \in OriginalSizes, tw \in Targets, th \in Targets }

Inputs == ConcurrentInputs \cup ParserInputs \cup TransformInputs

EmptyStore == [k \in {} |-> NoObject]

Init ==
  /\ \E in \in Inputs :
       /\ event_ok = in.event_ok
       /\ request = [uri |-> in.uri, querystring |-> in.querystring,
                     headers |-> in.headers]
       /\ store = IF in.original = NoObject THEN EmptyStore
                  ELSE (GetKey(S3ObjectKey(in.uri)) :> in.original)
       /\ encoded_size = in.encoded_size
       /\ pc = [p \in Procs |-> IF p <= in.procs THEN "start" ELSE "off"]
  /\ store0 = store
  /\ after = [p \in Procs |-> FALSE]
  /\ target_width = [p \in Procs |-> 0]
  /\ target_height = [p \in Procs |-> 0]
  /\ target_quality = [p \in Procs |-> DefaultQuality]
  /\ s3_object_key = [p \in Procs |-> <<>>]
  /\ converted_object_key = [p \in Procs |-> <<>>]
  /\ head_out = [p \in Procs |-> "none"]
  /\ cached = [p \in Procs |-> FALSE]
  /\ s3_response = [p \in Procs |-> NoObject]
  /\ converted_size = [p \in Procs |-> <<0, 0>>]
  /\ crop_box = [p \in Procs |-> <<0, 0, 0, 0>>]
  /\ result_data = [p \in Procs |-> NoBody]
  /\ response = [p \in Procs |-> NoResponse]
  /\ failure = [p \in Procs |-> "none"]
  /\ did = [p \in Procs |-> {}]
  /\ puts = {}

(***************************************************************************)
(* lambda_handler, one action per step.                                    *)
(***************************************************************************)
Finish(p, resp) ==
  /\ response' = [response EXCEPT ![p] = resp]
  /\ pc' = [pc EXCEPT ![p] = "done"]
  /\ UNCHANGED failure

Raise(p, exc) ==
  /\ failure' = [failure EXCEPT ![p] = exc]
  /\ pc' = [pc EXCEPT ![p] = "failed"]
  /\ UNCHANGED response

Goto(p, label) ==
  /\ pc' = [pc EXCEPT ![p] = label]
  /\ UNCHANGED <<response, failure>>

\* lines 15-29: the invocation begins; an event without records is answered 400
Start(p) ==
  /\ pc[p] = "start"
  /\ after' = [after EXCEPT ![p] = pc[Other(p)] \in {"done", "failed"}]
  /\ IF event_ok THEN Goto(p, "parse") ELSE Finish(p, BadRequestResponse)
  /\ UNCHANGED <<event_ok, request, store, store0, encoded_size, target_width,
                 target_height, target_quality, s3_object_key, converted_object_key,
                 head_out, cached, s3_response, converted_size, crop_box, result_data,
                 did, puts>>

\* lines 31-68: the targets are parsed; 0 x 0 is answered with the request's headers
Parse(p) ==
  /\ pc[p] = "parse"
  /\ LET t == ParseTargets(request.querystring)
     IN  IF ~t.ok
           THEN /\ Raise(p, "ValueError")
                /\ UNCHANGED <<target_width, target_height, target_quality>>
         ELSE /\ target_width' = [target_width EXCEPT ![p] = t.target_width]
              /\ target_height' = [target_height EXCEPT ![p] = t.target_height]
              /\ target_quality' = [target_quality EXCEPT ![p] = t.target_quality]
              /\ IF t.target_width = 0 /\ t.target_height = 0
                   THEN Finish(p, NoTransformResponse(request))
                 ELSE Goto(p, "key")
  /\ UNCHANGED <<event_ok, request, store, store0, encoded_size, after,
                 s3_object_key, converted_object_key, head_out, cached, s3_response,
                 converted_size, crop_box, result_data, did, puts>>

\* lines 70-84
BuildKey(p) ==
  /\ pc[p] = "key"
  /\ s3_object_key' = [s3_object_key EXCEPT ![p] = S3ObjectKey(request.uri)]
  /\ converted_object_key' =
       [converted_object_key EXCEPT
          ![p] = ConvertedObjectKey(request.uri, target_width[p], target_height[p],
                                    target_quality[p])]
  /\ Goto(p, "head")
  /\ UNCHANGED <<event_ok, request, store, store0, encoded_size, after, target_width,
                 target_height, target_quality, head_out, cached, s3_response,
                 converted_size, crop_box, result_data, did, puts>>

\* lines 86-105: head_object on the converted key.  It returns (the object is
\* there), raises ClientError 404 (it is not), raises another ClientError (403,
\* throttling) or raises an exception that is no ClientError (no connection).
\* "except ClientError" takes every ClientError as "not there".
HeadObject(p) ==
  /\ pc[p] = "head"
  /\ cached' = [cached EXCEPT ![p] = Exists(HeadKey(converted_object_key[p]))]
  /\ \/ /\ Exists(HeadKey(converted_object_key[p]))
        /\ head_out' = [head_out EXCEPT ![p] = "exists"]
        /\ Finish(p, RedirectResponse(converted_object_key[p]))
     \/ /\ ~Exists(HeadKey(converted_object_key[p]))
        /\ head_out' = [head_out EXCEPT ![p] = "not_found"]
        /\ Goto(p, "get")
     \/ /\ head_out' = [head_out EXCEPT ![p] = "client_error"]
        /\ Goto(p, "get")
     \/ /\ head_out' = [head_out EXCEPT ![p] = "connection_error"]
        /\ Raise(p, "BotoCoreError")
  /\ UNCHANGED <<event_ok, request, store, store0, encoded_size, after, target_width,
                 target_height, target_quality, s3_object_key, converted_object_key,
                 s3_response, converted_size, crop_box, result_data, did, puts>>

\* lines 107-121: get_object on the original; a body that is neither JPEG nor PNG
\* is decoded as UTF-8 and returned as text with the request's headers
GetObject(p) ==
  /\ pc[p] = "get"
  /\ \/ /\ Exists(GetKey(s3_object_key[p]))
        /\ LET obj == store[GetKey(s3_object_key[p])]
           IN  /\ s3_response' = [s3_response EXCEPT ![p] = obj]
               /\ did' = [did EXCEPT ![p] = @ \cup {"get"}]
               /\ IF obj.ContentType \in ImageTypes THEN Goto(p, "transform")
                  ELSE LET text == Utf8Decode(obj.Body.bytes)
                       IN  IF text.ok
                             THEN Finish(p, PassThroughResponse(request, text.text))
                           ELSE Raise(p, "UnicodeDecodeError")
     \/ /\ ~Exists(GetKey(s3_object_key[p]))
        /\ Raise(p, "ClientError")
        /\ UNCHANGED <<s3_response, did>>
     \/ /\ Raise(p, "ClientError")
        /\ UNCHANGED <<s3_response, did>>
  /\ UNCHANGED <<event_ok, request, store, store0, encoded_size, after, target_width,
                 target_height, target_quality, s3_object_key, converted_object_key,
                 head_out, cached, converted_size, crop_box, result_data, puts>>

\* lines 123-181: open, resize, crop and encode.  Image.open raises for a body
\* that is no image, resize (with reducing_gap) raises for a size below 1 x 1,
\* and cropping to or saving an image with no pixels raises.
Transform(p) ==
  /\ pc[p] = "transform"
  /\ LET image == s3_response[p].Body
     IN  IF image.kind # "image"
           THEN /\ Raise(p, "UnidentifiedImageError")
                /\ UNCHANGED <<target_width, target_height, converted_size, crop_box,
                               result_data, did>>
         ELSE
           LET width == image.size[1]
               height == image.size[2]
               transform_ratio ==
                 TransformRatio(target_width[p], target_height[p], width, height)
               conv == ResizedSize(image.size, transform_ratio)
               tw == FinalTarget(target_width[p], conv[1])
               th == FinalTarget(target_height[p], conv[2])
               box == CropBox(conv, tw, th)
               cropped == CroppedSize(box)
           IN  IF conv[1] < 1 \/ conv[2] < 1
                 THEN /\ Raise(p, "ValueError")
                      /\ UNCHANGED <<target_width, target_height, converted_size,
                                     crop_box, result_data, did>>
               ELSE
                 /\ converted_size' = [converted_size EXCEPT ![p] = conv]
                 /\ target_width' = [target_width EXCEPT ![p] = tw]
                 /\ target_height' = [target_height EXCEPT ![p] = th]
                 /\ crop_box' = [crop_box EXCEPT ![p] = box]
                 /\ IF cropped[1] < 1 \/ cropped[2] < 1
                      THEN /\ Raise(p, "SystemError")
                           /\ UNCHANGED <<result_data, did>>
                    ELSE /\ result_data' =
                              [result_data EXCEPT
                                 ![p] = Encode(image, conv, box, target_quality[p],
                                               encoded_size)]
                         /\ did' = [did EXCEPT ![p] = @ \cup {"transform"}]
                         /\ Goto(p, "respond")
  /\ UNCHANGED <<event_ok, request, store, store0, encoded_size, after,
                 target_quality, s3_object_key, converted_object_key, head_out, cached,
                 s3_response, puts>>

\* lines 183-217: above the limit the bytes are put under the converted key and
\* the answer is a redirect; a failed put_object raises.  Otherwise the bytes
\* are returned inline.
Respond(p) ==
  /\ pc[p] = "respond"
  /\ \/ /\ TooLarge(result_data[p].size)
        /\ LET put == PutRequest(converted_object_key[p],
                                 s3_response[p].ContentType, result_data[p])
           IN  /\ store' = (put.Key :> [ContentType |-> put.ContentType,
                                        Body |-> put.Body]) @@ store
               /\ puts' = puts \cup {put}
        /\ did' = [did EXCEPT ![p] = @ \cup {"put"}]
        /\ Finish(p, RedirectResponse(converted_object_key[p]))
     \/ /\ TooLarge(result_data[p].size)
        /\ Raise(p, "ClientError")
        /\ UNCHANGED <<store, puts, did>>
     \/ /\ ~TooLarge(result_data[p].size)
        /\ Finish(p, InlineResponse(s3_response[p].ContentType, result_data[p]))
        /\ UNCHANGED <<store, puts, did>>
  /\ UNCHANGED <<event_ok, request, store0, encoded_size, after, target_width,
                 target_height, target_quality, s3_object_key, converted_object_key,
                 head_out, cached, s3_response, converted_size, crop_box, result_data>>

Next ==
  \E p \in Procs :
    \/ Start(p)
    \/ Parse(p)
    \/ BuildKey(p)
    \/ HeadObject(p)
    \/ GetObject(p)
    \/ Transform(p)
    \/ Respond(p)

Spec == Init /\ [][Next]_vars

(***************************************************************************)
(* Properties.                                                             *)
(***************************************************************************)
\* what the parser made of the request, before Transform fills in an
\* unconstrained axis
Parsed == ParseTargets(request.querystring)

\* the key the converted image of the request is stored under
DerivedKey ==
  Unquote(ConvertedObjectKey(request.uri, Parsed.target_width, Parsed.target_height,
                             Parsed.target_quality))

IsRedirect(p) ==
  /\ response[p].status = 301
  /\ DOMAIN response[p].headers = {"location"}
  /\ response[p].headers["location"] =
       [key |-> "Location", value |-> <<"/">> \o converted_object_key[p]]

\* the invocation went through the cache-miss path to an encoded result
Regenerated(p) == "transform" \in did[p]

\* C1 (as claimed): after a first invocation completed on the cache-miss path,
\* whatever its outcome, a second identical invocation answers 301 to the
\* converted key.
C1_SecondCallAlwaysRedirects ==
  \A p \in Procs :
    (after[p] /\ pc[p] = "done" /\ pc[Other(p)] = "done" /\ Regenerated(Other(p)))
      => IsRedirect(p)

\* C1 (amended): when the first invocation stored its result (it was larger
\* than 1,000,000 bytes and put_object succeeded), head_object in a second
\* identical invocation never reports not-found, a successful head_object
\* answers without get, transform or put, and every response of the second
\* invocation is the 301 to the converted key.
C1_SecondCallRedirectsWhenStored ==
  \A p \in Procs :
    (after[p] /\ "put" \in did[Other(p)]) =>
      /\ head_out[p] # "not_found"
      /\ head_out[p] = "exists" => did[p] = {}
      /\ pc[p] = "done" => IsRedirect(p)

C1_Witness ==
  \E p \in Procs :
    /\ after[p] /\ "put" \in did[Other(p)]
    /\ pc[p] = "done" /\ head_out[p] = "exists" /\ IsRedirect(p)
    /\ request.uri = <<"/", "d", "/", "%", "7", "0">>

\* C2: a head_object failure other than not-found is surfaced as a failure of
\* the invocation, and only not-found leads on to get_object, the transform and
\* put_object.
C2_HeadErrorSurfaced ==
  \A p \in Procs :
    /\ head_out[p] \in {"client_error", "connection_error"}
         => (pc[p] = "failed" /\ did[p] = {})
    /\ (pc[p] \in {"get", "transform", "respond"} \/ did[p] # {})
         => head_out[p] = "not_found"

\* C3: when the converted key is in the bucket at the time of the existence
\* check, the invocation performs no get_object, no transform and no
\* put_object, and what it returns is the 301 to the converted key.
C3_CachedKeyShortCircuits ==
  \A p \in Procs :
    (cached[p] /\ head_out[p] # "none") =>
      /\ did[p] = {}
      /\ pc[p] \notin {"get", "transform", "respond"}
      /\ pc[p] = "done" => IsRedirect(p)

\* C4: an encoded result of at most 1,000,000 bytes is answered 200 with the
\* base64 body and the original's content type and is not put; a larger one
\* is put under the URL-decoded converted key with the original's content type
\* and answered 301, and without a successful put there is no response.
C4_SizeThreshold ==
  \A p \in Procs :
    Regenerated(p) =>
      /\ (pc[p] = "done" /\ result_data[p].size <= 1000000) =>
           /\ response[p].status = 200
           /\ response[p].bodyEncoding = "base64"
           /\ response[p].body = [kind |-> "base64", data |-> result_data[p]]
           /\ response[p].headers =
                ("content-type" :> [key |-> "Content-Type",
                                    value |-> s3_response[p].ContentType])
           /\ "put" \notin did[p]
      /\ (pc[p] = "done" /\ result_data[p].size > 1000000) =>
           /\ IsRedirect(p)
           /\ "put" \in did[p]
           /\ DerivedKey \in DOMAIN store
           /\ store[DerivedKey] = [ContentType |-> s3_response[p].ContentType,
                                   Body |-> result_data[p]]
      /\ (result_data[p].size > 1000000 /\ "put" \notin did[p]) =>
           /\ pc[p] \in {"respond", "failed"}
           /\ response[p].status = 0

C4_Witness ==
  \E p \in Procs :
    /\ Regenerated(p) /\ pc[p] = "done"
    /\ result_data[p].size = 1000001
    /\ IsRedirect(p) /\ "put" \in did[p]

\* the converted key has been built by the invocation
BuiltKey(p) == pc[p] \in {"head", "get", "transform", "respond"} \/ head_out[p] # "none"

\* index of the last "/" of a key, 0 when there is none
LastSlash(key) ==
  IF \E i \in 1..Len(key) : key[i] = "/"
  THEN CHOOSE i \in 1..Len(key) :
         key[i] = "/" /\ \A j \in (i + 1)..Len(key) : key[j] # "/"
  ELSE 0

\* "h<H>" if H # 0, then "w<W>" if W # 0, then "q<Q>_"
ExpectedTag(W, H, Q) ==
  (IF H # 0 THEN <<"h">> \o IntToStr(H) ELSE <<>>) \o
  (IF W # 0 THEN <<"w">> \o IntToStr(W) ELSE <<>>) \o
  <<"q">> \o IntToStr(Q) \o <<"_">>

\* C5: the converted key is the original key (the uri without its first
\* character) with the tag h<H>w<W>q<Q>_ inserted before its last segment and
\* every directory segment unchanged, and two invocations of one request build
\* the same key.
C5_DerivedKeyShape ==
  \A p \in Procs :
    BuiltKey(p) =>
      LET key == SubSeq(request.uri, 2, Len(request.uri))
          cut == LastSlash(key)
      IN  /\ converted_object_key[p] =
               SubSeq(key, 1, cut)
                 \o ExpectedTag(Parsed.target_width, Parsed.target_height,
                                Parsed.target_quality)
                 \o SubSeq(key, cut + 1, Len(key))
          /\ \A q \in Procs : BuiltKey(q) => converted_object_key[q] = converted_object_key[p]

C5_Witness ==
  \E p \in Procs :
    /\ pc[p] = "head"
    /\ request.uri = <<"/", "d", "/", "e", "/", "p">>
    /\ Parsed.target_width = 4 /\ Parsed.target_height = 3 /\ Parsed.target_quality = 60
    /\ converted_object_key[p] =
         <<"d", "/", "e", "/", "h", "3", "w", "4", "q", "6", "0", "_", "p">>

\* C6: a fetched original that is neither JPEG nor PNG is answered 200 with
\* the original body and with the original's content type as the response's
\* content type, with no transform and no put.
C6_PassThroughKeepsType ==
  \A p \in Procs :
    ("get" \in did[p] /\ s3_response[p].ContentType \notin ImageTypes) =>
      /\ pc[p] = "done"
      /\ response[p].status = 200
      /\ response[p].body.kind = "text"
      /\ response[p].body.text = Utf8Decode(s3_response[p].Body.bytes).text
      /\ "content-type" \in DOMAIN response[p].headers
      /\ response[p].headers["content-type"].value = s3_response[p].ContentType
      /\ did[p] = {"get"}

\* the q values of the query string, in order
SuppliedQualities ==
  IF request.querystring = <<>> THEN <<>>
  ELSE SelectSeq(Queries(request.querystring),
                 LAMBDA kv : Len(kv) = 2 /\ kv[1] = <<"q">>)

\* the supplied q saturated into [1, 95], or 75 when none is supplied
ExpectedQuality ==
  IF SuppliedQualities = <<>> THEN 75
  ELSE LET q == ParseInt(SuppliedQualities[Len(SuppliedQualities)][2]).val
       IN  IF q > 95 THEN 95 ELSE IF q < 1 THEN 1 ELSE q

\* C7: a transform that proceeds past the parser has a non-negative width and
\* height, not both 0, and a quality in [1, 95] that is the supplied q
\* saturated, or 75.
C7_TransformSpecInvariant ==
  \A p \in Procs :
    pc[p] \in {"key", "head", "get", "transform"} =>
      /\ target_width[p] >= 0
      /\ target_height[p] >= 0
      /\ (target_width[p] # 0 \/ target_height[p] # 0)
      /\ target_quality[p] \in 1..95
      /\ target_quality[p] = ExpectedQuality

\* C8: with exactly one axis constrained, by a target not larger than the
\* original on that axis, the cropped output measures exactly the target on
\* that axis and the resized dimension on the other.
C8_ExactTargetOnConstrainedAxis ==
  \A p \in Procs :
    Regenerated(p) =>
      LET original == s3_response[p].Body.size
          out == CroppedSize(crop_box[p])
      IN  /\ (Parsed.target_width > 0 /\ Parsed.target_height = 0
                /\ Parsed.target_width <= original[1])
               => (out[1] = Parsed.target_width /\ out[2] = converted_size[p][2])
          /\ (Parsed.target_height > 0 /\ Parsed.target_width = 0
                /\ Parsed.target_height <= original[2])
               => (out[2] = Parsed.target_height /\ out[1] = converted_size[p][1])

\* the crop window of the invocation has been computed
Cropped(p) == converted_size[p] # <<0, 0>>

\* C9: for non-negative targets, not both 0, the ratio is at most 1.0 (the
\* resized image is no larger than the original) and the crop window lies in
\* 0 <= start <= end <= resized dimension - 1 on both axes; 1000 x 1000 with
\* target 2000 x 2000 is resized by 1.0 and cropped to [0, 999] on both axes.
C9_CropBounds ==
  \A p \in Procs :
    (Cropped(p) /\ Parsed.target_width >= 0 /\ Parsed.target_height >= 0) =>
      LET original == s3_response[p].Body.size
          ratio == TransformRatio(Parsed.target_width, Parsed.target_height,
                                  original[1], original[2])
          conv == converted_size[p]
          box == crop_box[p]
      IN  /\ ratio[1] <= ratio[2]
          /\ conv[1] <= original[1] /\ conv[2] <= original[2]
          /\ 0 <= box[1] /\ box[1] <= box[3] /\ box[3] <= conv[1] - 1
          /\ 0 <= box[2] /\ box[2] <= box[4] /\ box[4] <= conv[2] - 1
          /\ (original = <<1000, 1000>> /\ Parsed.target_width = 2000
                /\ Parsed.target_height = 2000)
               => (conv = <<1000, 1000>> /\ box = <<0, 0, 999, 999>>)

C9_Witness ==
  \E p \in Procs :
    /\ pc[p] = "respond"
    /\ s3_response[p].Body.size = <<1000, 1000>>
    /\ Parsed.target_width = 2000 /\ Parsed.target_height = 2000
    /\ crop_box[p] = <<0, 0, 999, 999>>

\* C10: under every interleaving of two invocations of one request, every put
\* writes the same converted key with the same bytes and the original's
\* content type, the bucket ends as one invocation alone would leave it, and
\* no other key is created, overwritten or deleted.
C10_BenignConcurrentRegeneration ==
  /\ \A k \in DOMAIN store0 : k \in DOMAIN store /\ store[k] = store0[k]
  /\ DOMAIN store \subseteq (DOMAIN store0 \cup {DerivedKey})
  /\ Cardinality(puts) <= 1
  /\ \A put \in puts :
       /\ put.Key = DerivedKey
       /\ \A k \in DOMAIN store0 : put.ContentType = store0[k].ContentType
       /\ store[DerivedKey] = [ContentType |-> put.ContentType, Body |-> put.Body]
  /\ \A p, q \in Procs :
       ("put" \in did[p] /\ "put" \in did[q]) => result_data[p] = result_data[q]

C10_Witness ==
  /\ \A p \in Procs :
       /\ pc[p] = "done" /\ ~after[p]
       /\ head_out[p] = "not_found" /\ "put" \in did[p]
  /\ request.uri = <<"/", "d", "/", "%", "7", "0">>

=============================================================================
